---- MODULE Spec2Model ----
(***************************************************************************)
(* A model of the design-dev-toolbox export pipeline (export-to-pdf.ts):   *)
(* configuration loading, the dev-server probe, the browser session, the   *)
(* slide navigator, the capture loop and the merged PDF.  The presentation *)
(* shown in the browser page is the environment of the program: it moves   *)
(* one slide per ArrowRight/ArrowLeft, one sub-state per ArrowDown/ArrowUp *)
(* and cycles the steps of a 'step' slide.                                 *)
(***************************************************************************)
EXTENDS Integers, Sequences, FiniteSets, TLC

\* ------------------------------------------------------------------ bounds

\* Largest totalSlides of a configuration, and number of indices of its
\* sub-slide mapping.
MaxSlides == 2
\* Largest 'max' of a sub-slide spec.
MaxSub == 2
\* Largest slide index of the stand-alone navigator runs (SpecNav).
NavMax == 5

\* ------------------------------------------------- literal delays of the code

InitialSettleDelay == 1000
SameSlideDelay == 500
HideSettleDelay == 300
ContentSettleDelay == 1500
DefaultAnimationWaitTime == 2000
DefaultSlideTransitionWaitTime == 1000
DefaultSubSlideTransitionWaitTime == 2000

\* ------------------------------------------------------------ configuration

\* interface SlideConfig: the two variants of a sub-slide spec.
SlideConfig ==
    {[type |-> "subSlide", max |-> m] : m \in 0..MaxSub}
        \cup {[type |-> "step", max |-> m] : m \in 1..MaxSub}

\* The value of slidesWithSubSlides[k] for a key the mapping does not hold.
NoSlideConfig == [type |-> "none", max |-> 0]

AllFields == {"devServerUrl", "totalSlides", "slidesWithSubSlides", "viewport", "selectors"}

RequiredFields == {"devServerUrl", "totalSlides"}

\* The field sets of the configurations tried: complete, one field missing,
\* and the two required fields alone.
FieldSets == {AllFields} \cup {AllFields \ {f} : f \in AllFields} \cup {RequiredFields}

SubSlideMaps == [0..(MaxSlides - 1) -> SlideConfig \cup {NoSlideConfig}]

\* specialSlide.typewriterWaitTime || 3000
DefaultTypewriterWaitTime == 3000

\* interface ExportConfig, as parsed from pdf-export.config.json: "fields" is
\* the set of fields the file holds; an absent totalSlides reads as 0 (falsy)
\* and an absent mapping holds no key.
ExportConfig ==
    {c \in [fields : FieldSets,
            totalSlides : 0..MaxSlides,
            slidesWithSubSlides : SubSlideMaps,
            hideUIElements : BOOLEAN,
            animationWaitTime : {DefaultAnimationWaitTime},
            slideTransitionWaitTime : {DefaultSlideTransitionWaitTime},
            subSlideTransitionWaitTime : {DefaultSubSlideTransitionWaitTime},
            specialSlides : {{}}] :
        /\ ("totalSlides" \notin c.fields) => (c.totalSlides = 0)
        /\ ("slidesWithSubSlides" \notin c.fields) =>
               (\A k \in DOMAIN c.slidesWithSubSlides : c.slidesWithSubSlides[k] = NoSlideConfig)}

\* What stands for the content of a file that is absent or is not JSON.
NoConfig ==
    [fields |-> {},
     totalSlides |-> 0,
     slidesWithSubSlides |-> [k \in 0..(MaxSlides - 1) |-> NoSlideConfig],
     hideUIElements |-> FALSE,
     animationWaitTime |-> 0,
     slideTransitionWaitTime |-> 0,
     subSlideTransitionWaitTime |-> 0,
     specialSlides |-> {}]

\* config.slidesWithSubSlides[slideIndex.toString()]
SubSlideConfigOf(c, k) ==
    IF k \in DOMAIN c.slidesWithSubSlides THEN c.slidesWithSubSlides[k] ELSE NoSlideConfig

\* ---------------------------------------------------------------- variables

VARIABLES
    configFile,       \* pdf-export.config.json: "absent", "malformed" or "present"
    config,           \* the parsed content of the file: const config = loadConfig()
    pc,               \* position of the run
    stack,            \* return positions of the calls in progress
    slideIndex,       \* loop variable of the slide loop / parameter of navigateToSlide
    subIndex,         \* loop variable of the sub-slide loop
    steps,            \* navigateToSlide: slideIndex - currentSlide
    i,                \* loop counter of navigateToSlide and of the reset loop
    delay,            \* waitForAnimation: the delay argument
    screenshot,       \* the buffer returned by takeScreenshot
    pdfDoc,           \* the document returned by convertImageToPDF
    mergedPdf,        \* pages of the accumulating document
    screenshotFiles,  \* const screenshotFiles: string[]
    totalPages,       \* let totalPages
    screenshotsDir,   \* files written under exports/screenshots, in write order
    outputFile,       \* writes of exports/presentation.pdf, in order
    browser,          \* calls made on the automation library
    page,             \* the presentation shown in the page
    trace,            \* key events, settle waits, screenshots and export log lines, in order
    shots,            \* every screenshot taken, in order
    navStart,         \* Len(trace) when the current navigateToSlide call began
    currentSlide,     \* navigateToSlide: const currentSlide
    navPageSlide,     \* the slide the page showed when navigateToSlide was called
    failed,           \* an error is propagating out of exportPresentationToPDF
    probes,           \* calls of checkDevServer
    probeOutcome,     \* what the last probe met, "none" before the first
    exitCode,         \* argument of process.exit, -1 while running
    files,            \* decode-base64-images.js: the entries below the project root
    fixer,            \* decode-base64-images.js: the locals of main()
    project,          \* install.ts: export-to-pdf.ts and package.json of the project
    installer,        \* install.ts: the position and locals of install()
    chrome,           \* findChromeExecutable: the platform, the paths present and the result
    readiness         \* how the page answers the readiness polls of this run

vars ==
    <<configFile, config, pc, stack, slideIndex, subIndex, steps, i, delay,
      screenshot, pdfDoc, mergedPdf, screenshotFiles, totalPages, screenshotsDir, outputFile,
      browser, page, trace, shots, navStart, currentSlide, navPageSlide, failed, probes,
      probeOutcome, exitCode, files, fixer, project, installer, chrome, readiness>>

\* The image fixer and the installer are separate programs: a step of the
\* export leaves their state alone.
toolVars == <<files, fixer, project, installer, chrome>>
inputVars == <<configFile, config, readiness, toolVars>>
exportVars ==
    <<configFile, config, pc, stack, slideIndex, subIndex, steps, i, delay,
      screenshot, pdfDoc, mergedPdf, screenshotFiles, totalPages, screenshotsDir, outputFile,
      browser, page, trace, shots, navStart, currentSlide, navPageSlide, failed, probes,
      probeOutcome, exitCode, readiness>>
loopVars == <<slideIndex, subIndex>>
navVars == <<steps, i, navStart, currentSlide, navPageSlide>>
probeVars == <<probes, probeOutcome>>
docVars == <<pdfDoc, mergedPdf, screenshotFiles, totalPages>>
diskVars == <<screenshotsDir, outputFile>>
histVars == <<trace, shots>>

NoScreenshot == [n |-> 0, slideIndex |-> 0, subIndex |-> 0, type |-> "none",
                 pageSlide |-> 0, pageSub |-> 0]

\* The page before the initial load.
BlankPage ==
    [loaded |-> FALSE, slide |-> 0, last |-> 0,
     layout |-> [k \in {0} |-> NoSlideConfig], sub |-> [k \in {0} |-> 0],
     progressBar |-> FALSE, displayNone |-> {}]

NoBrowser == [launches |-> 0, newPages |-> 0, gotos |-> 0, closes |-> 0]

\* The locals, documents, files and history of a process that has not run yet.
FreshLocals ==
    /\ subIndex = 0
    /\ steps = 0
    /\ i = 0
    /\ delay = 0
    /\ screenshot = NoScreenshot
    /\ pdfDoc = <<>>
    /\ mergedPdf = <<>>
    /\ screenshotFiles = <<>>
    /\ totalPages = 0
    /\ screenshotsDir = <<>>
    /\ outputFile = <<>>
    /\ trace = <<>>
    /\ shots = <<>>
    /\ navStart = 0
    /\ currentSlide = 0
    /\ navPageSlide = 0
    /\ failed = FALSE
    /\ exitCode = -1

\* The state of a process that has not run yet.
Fresh ==
    /\ stack = <<>>
    /\ slideIndex = 0
    /\ browser = NoBrowser
    /\ page = BlankPage
    /\ probes = 0
    /\ probeOutcome = "none"
    /\ FreshLocals

\* The image fixer and the installer, not started.
NoFiles == <<>>
NoFixer == [pc |-> "idle"]
NoProject == [exportScript |-> "absent"]
NoInstaller == [pc |-> "idle"]
NoChrome == [pc |-> "idle"]

ToolsIdle ==
    /\ files = NoFiles
    /\ fixer = NoFixer
    /\ project = NoProject
    /\ installer = NoInstaller
    /\ chrome = NoChrome

Init ==
    /\ \/ configFile \in {"absent", "malformed"} /\ config = NoConfig
       \/ configFile = "present" /\ config \in ExportConfig
    /\ pc = "loadConfig"
    /\ Fresh
    /\ ToolsIdle
    /\ readiness = "either"

\* The export process, not started, while another program is observed.
ExportIdle ==
    /\ configFile = "absent"
    /\ config = NoConfig
    /\ pc = "loadConfig"
    /\ Fresh
    /\ readiness = "either"

\* ------------------------------------------------------------ control flow

Goto(l) == pc' = l /\ UNCHANGED stack

Call(l, ret) == pc' = l /\ stack' = <<ret>> \o stack

Return == pc' = Head(stack) /\ stack' = Tail(stack)

\* process.exit(code)
Exit(code) == pc' = "exited" /\ stack' = <<>> /\ exitCode' = code

\* ------------------------------------------------------------ loadConfig

\* Mutant of ConfigAccepted: only the URL is required.
ConfigAcceptedUrlOnly(c) == "devServerUrl" \in c.fields

\* loadConfig: exits 1 when the file is absent, is not JSON, or lacks a
\* required field (!config.devServerUrl || !config.totalSlides).
ConfigAccepted(c) == "devServerUrl" \in c.fields /\ c.totalSlides # 0

LoadConfig ==
    /\ pc = "loadConfig"
    /\ IF configFile = "present" /\ ConfigAccepted(config)
       THEN Goto("checkDevServer") /\ UNCHANGED exitCode
       ELSE Exit(1)
    /\ UNCHANGED <<inputVars, loopVars, navVars, delay, screenshot, docVars, diskVars,
                   browser, page, histVars, failed, probeVars>>

\* ---------------------------------------------------------- checkDevServer

ProbeOutcomes == {"200", "404", "500", "error", "timeout"}

\* Mutant of checkDevServer: any HTTP response counts as "running".
checkDevServerAnyResponse(outcome) == outcome \notin {"error", "timeout"}

\* checkDevServer: resolve(res.statusCode === 200); error and timeout resolve false.
checkDevServer(outcome) == outcome = "200"

\* exportPresentationToPDF, the probe and the abort on "not running".
CheckDevServer ==
    /\ pc = "checkDevServer"
    /\ probes' = probes + 1
    /\ \E outcome \in ProbeOutcomes :
        /\ probeOutcome' = outcome
        /\ IF checkDevServer(outcome)
           THEN Goto("launch") /\ UNCHANGED exitCode
           ELSE Exit(1)
    /\ UNCHANGED <<inputVars, loopVars, navVars, delay, screenshot, docVars,
                   diskVars, browser, page, histVars, failed>>

\* ------------------------------------------------- the presentation (page)

\* The first sub-state of a slide: 0 for 'subSlide' (and for a plain slide), 1 for 'step'.
FirstSub(sc) == IF sc.type = "step" THEN 1 ELSE 0

\* The presentation served at devServerUrl, as the configuration describes it:
\* slides 0..totalSlides-1, each in its first sub-state, showing slide s.
Presentation(c, s, bar) ==
    [loaded |-> TRUE, slide |-> s, last |-> c.totalSlides - 1,
     layout |-> [k \in 0..(c.totalSlides - 1) |-> SubSlideConfigOf(c, k)],
     sub |-> [k \in 0..(c.totalSlides - 1) |-> FirstSub(SubSlideConfigOf(c, k))],
     progressBar |-> bar, displayNone |-> {}]

\* The sub-state of the current slide after ArrowDown: one further, the steps
\* of a 'step' slide being cyclic with period max.
SubAfterDown(sc, sub) ==
    CASE sc.type = "subSlide" -> IF sub < sc.max THEN sub + 1 ELSE sub
      [] sc.type = "step" -> IF sub < sc.max THEN sub + 1 ELSE 1
      [] OTHER -> sub

\* The sub-state of the current slide after ArrowUp.
SubAfterUp(sc, sub) ==
    CASE sc.type = "subSlide" -> IF sub > 0 THEN sub - 1 ELSE sub
      [] sc.type = "step" -> IF sub > 1 THEN sub - 1 ELSE sc.max
      [] OTHER -> sub

\* The presentation's reaction to one key event.
PageAfterKey(p, key) ==
    CASE key = "ArrowRight" -> [p EXCEPT !.slide = IF p.slide < p.last THEN p.slide + 1 ELSE p.slide]
      [] key = "ArrowLeft" -> [p EXCEPT !.slide = IF p.slide > 0 THEN p.slide - 1 ELSE p.slide]
      [] key = "ArrowDown" -> [p EXCEPT !.sub[p.slide] = SubAfterDown(p.layout[p.slide], p.sub[p.slide])]
      [] key = "ArrowUp" -> [p EXCEPT !.sub[p.slide] = SubAfterUp(p.layout[p.slide], p.sub[p.slide])]

\* The progress indicator's aria-valuenow: the 1-based slide position, or 0 for
\* "no such element / attribute".
AriaValueNow(p) == IF p.progressBar THEN p.slide + 1 ELSE 0

\* ---------------------------------------------------------- trace events

KeyEvent(key) == [ev |-> "key", key |-> key, ms |-> 0]
SleepEvent(ms) == [ev |-> "sleep", key |-> "", ms |-> ms]
PollEvent == [ev |-> "poll", key |-> "", ms |-> 0]
ShotEvent == [ev |-> "shot", key |-> "", ms |-> 0]

\* console.log(`      ✓ Exported ${type} ${displayIndex}`): the variant in the
\* field key, the number in the field ms.
ExportedEvent(type, displayIndex) == [ev |-> "exported", key |-> type, ms |-> displayIndex]

\* await page.keyboard.press(key)
Press(key) ==
    /\ page' = PageAfterKey(page, key)
    /\ trace' = Append(trace, KeyEvent(key))

\* ------------------------------------------------------- waitForAnimation

\* const waitTime = delay || config.animationWaitTime
WaitTimeOf(d, c) == IF d # 0 THEN d ELSE c.animationWaitTime

\* Mutant of CallWaitForAnimation: the settle wait is skipped.
SkipWaitForAnimation(d, ret) ==
    /\ Goto(ret)
    /\ delay' = d

\* waitForAnimation(page, config, d), returning to position ret.
CallWaitForAnimation(d, ret) ==
    /\ Call("waitForAnimation", ret)
    /\ delay' = d

\* What a readiness poll of this run can meet: the page is ready in time, or
\* the poll times out (and rejects).
PollOutcomes(r) == IF r = "either" THEN {"ready", "timeout"} ELSE {r}

\* Mutant of WaitForAnimation: the rejection of a poll that timed out is not caught.
WaitForAnimationThrows ==
    /\ pc = "waitForAnimation"
    /\ \E outcome \in PollOutcomes(readiness) :
        IF outcome = "timeout"
        THEN /\ trace' = Append(trace, SleepEvent(WaitTimeOf(delay, config)))
             /\ pc' = "finally"
             /\ stack' = <<>>
             /\ failed' = TRUE
        ELSE /\ trace' = trace \o <<SleepEvent(WaitTimeOf(delay, config)), PollEvent>>
             /\ Return
             /\ UNCHANGED failed
    /\ UNCHANGED <<inputVars, loopVars, navVars, delay, screenshot, docVars,
                   diskVars, browser, page, shots, probeVars, exitCode>>

\* waitForAnimation: the unconditional sleep of waitTime, then the opacity
\* poll bounded to 3 s, whose timeout is swallowed.
WaitForAnimation ==
    /\ pc = "waitForAnimation"
    /\ \E outcome \in PollOutcomes(readiness) :
        trace' = trace \o <<SleepEvent(WaitTimeOf(delay, config)), PollEvent>>
    /\ Return
    /\ UNCHANGED <<inputVars, loopVars, navVars, delay, screenshot, docVars,
                   diskVars, browser, page, shots, failed, probeVars, exitCode>>

\* -------------------------------------------------------- navigateToSlide

\* Mutant of CurrentSlide: the 1-based aria-valuenow taken as the 0-based index.
CurrentSlideRaw(p) == AriaValueNow(p)

\* Mutant of CurrentSlide: with no reading, the slide the page shows is used.
CurrentSlideTracked(p) == IF AriaValueNow(p) # 0 THEN AriaValueNow(p) - 1 ELSE p.slide

\* return ariaValueNow ? parseInt(ariaValueNow) - 1 : 0
CurrentSlide(p) == IF AriaValueNow(p) # 0 THEN AriaValueNow(p) - 1 ELSE 0

\* const steps = slideIndex - currentSlide
StepsTo(target, current) == target - current

\* navigateToSlide: read the progress indicator and compute the steps.  With no
\* selectors in the configuration, config.selectors.progressBar raises.
NavRead ==
    /\ pc = "navigateToSlide"
    /\ "selectors" \in config.fields
    /\ currentSlide' = CurrentSlide(page)
    /\ navPageSlide' = page.slide
    /\ steps' = StepsTo(slideIndex, CurrentSlide(page))
    /\ i' = 0
    /\ navStart' = Len(trace)
    /\ Goto("navLoop")
    /\ UNCHANGED <<inputVars, loopVars, delay, screenshot, docVars, diskVars,
                   browser, page, histVars, failed, probeVars, exitCode>>

\* navigateToSlide, steps > 0: one ArrowRight and its settle wait per step.
NavNext ==
    /\ pc = "navLoop"
    /\ steps > 0
    /\ i < steps
    /\ Press("ArrowRight")
    /\ i' = i + 1
    /\ CallWaitForAnimation(config.slideTransitionWaitTime, "navLoop")
    /\ UNCHANGED <<inputVars, loopVars, steps, navStart, currentSlide, navPageSlide, screenshot,
                   docVars, diskVars, browser, shots, failed, probeVars, exitCode>>

\* navigateToSlide, steps < 0: one ArrowLeft and its settle wait per step.
NavPrevious ==
    /\ pc = "navLoop"
    /\ steps < 0
    /\ i < -steps
    /\ Press("ArrowLeft")
    /\ i' = i + 1
    /\ CallWaitForAnimation(config.slideTransitionWaitTime, "navLoop")
    /\ UNCHANGED <<inputVars, loopVars, steps, navStart, currentSlide, navPageSlide, screenshot,
                   docVars, diskVars, browser, shots, failed, probeVars, exitCode>>

\* navigateToSlide, steps = 0: a settle wait of 500 ms and no key.
NavSame ==
    /\ pc = "navLoop"
    /\ steps = 0
    /\ CallWaitForAnimation(SameSlideDelay, "navReturn")
    /\ UNCHANGED <<inputVars, loopVars, navVars, screenshot, docVars, diskVars,
                   browser, page, histVars, failed, probeVars, exitCode>>

\* navigateToSlide returns: the loop of key events is exhausted.
NavReturn ==
    /\ \/ pc = "navReturn"
       \/ pc = "navLoop" /\ steps > 0 /\ i >= steps
       \/ pc = "navLoop" /\ steps < 0 /\ i >= -steps
    /\ Return
    /\ UNCHANGED <<inputVars, loopVars, navVars, delay, screenshot, docVars,
                   diskVars, browser, page, histVars, failed, probeVars, exitCode>>

\* ------------------------------------------------ exportPresentationToPDF

\* An operation that raises.  Inside the try block the error reaches the
\* catch clause, which logs and rethrows it into the finally clause; before it (launch, newPage, the first setViewport) it rejects
\* the promise of exportPresentationToPDF directly.  A step whose guard needs a
\* configuration field that is absent (a TypeError) can only raise.
InTry ==
    {"goto", "navigateToSlide", "navLoop", "lookup", "subLoop", "hideUIElements",
     "takeScreenshot", "screenshot", "writeScreenshot", "convertImageToPDF", "addPage",
     "reset", "save", "writeOutput"}

BeforeTry == {"launch", "newPage", "setViewport"}

RaiseInTry ==
    /\ pc \in InTry
    /\ pc' = "finally"
    /\ stack' = <<>>
    /\ failed' = TRUE
    /\ UNCHANGED <<inputVars, loopVars, navVars, delay, screenshot, docVars,
                   diskVars, browser, page, histVars, probeVars, exitCode>>

RaiseBeforeTry ==
    /\ pc \in BeforeTry
    /\ pc' = "rejected"
    /\ stack' = <<>>
    /\ failed' = TRUE
    /\ UNCHANGED <<inputVars, loopVars, navVars, delay, screenshot, docVars,
                   diskVars, browser, page, histVars, probeVars, exitCode>>

\* const browser = await puppeteer.launch(...)
Launch ==
    /\ pc = "launch"
    /\ browser' = [browser EXCEPT !.launches = @ + 1]
    /\ Goto("newPage")
    /\ UNCHANGED <<inputVars, loopVars, navVars, delay, screenshot, docVars,
                   diskVars, page, histVars, failed, probeVars, exitCode>>

\* const page = await browser.newPage()
NewPage ==
    /\ pc = "newPage"
    /\ browser' = [browser EXCEPT !.newPages = @ + 1]
    /\ Goto("setViewport")
    /\ UNCHANGED <<inputVars, loopVars, navVars, delay, screenshot, docVars,
                   diskVars, page, histVars, failed, probeVars, exitCode>>

\* await page.setViewport({width: config.viewport.width, ...}), before the try.
SetViewport ==
    /\ pc = "setViewport"
    /\ "viewport" \in config.fields
    /\ Goto("goto")
    /\ UNCHANGED <<inputVars, loopVars, navVars, delay, screenshot, docVars,
                   diskVars, browser, page, histVars, failed, probeVars, exitCode>>

\* await page.goto(config.devServerUrl): the one page load.  The presentation
\* comes up on some slide, with or without a progress indicator.
PageGoto ==
    /\ pc = "goto"
    /\ browser' = [browser EXCEPT !.gotos = @ + 1]
    /\ \E s \in 0..(config.totalSlides - 1), bar \in BOOLEAN :
        page' = Presentation(config, s, bar)
    /\ Goto("waitForSelector")
    /\ UNCHANGED <<inputVars, loopVars, navVars, delay, screenshot, docVars,
                   diskVars, histVars, failed, probeVars, exitCode>>

\* Mutant of WaitProgressBar: the wait for the progress indicator has no
\* timeout and never returns when the indicator does not come up.
WaitProgressBarForever ==
    /\ pc = "waitForSelector"
    /\ \E outcome \in PollOutcomes(readiness) :
        IF outcome = "timeout"
        THEN UNCHANGED <<pc, stack, delay>>
        ELSE CallWaitForAnimation(InitialSettleDelay, "createPdf")
    /\ UNCHANGED <<inputVars, loopVars, navVars, screenshot, docVars, diskVars,
                   browser, page, histVars, failed, probeVars, exitCode>>

\* await page.waitForSelector(progressBar) in its own try/catch, then the
\* settle wait of 1000 ms.
WaitProgressBar ==
    /\ pc = "waitForSelector"
    /\ \E outcome \in PollOutcomes(readiness) :
        CallWaitForAnimation(InitialSettleDelay, "createPdf")
    /\ UNCHANGED <<inputVars, loopVars, navVars, screenshot, docVars, diskVars,
                   browser, page, histVars, failed, probeVars, exitCode>>

\* const mergedPdf = await PDFDocument.create(); screenshotFiles = []; totalPages = 0;
\* slideIndex = 0
CreatePdf ==
    /\ pc = "createPdf"
    /\ mergedPdf' = <<>>
    /\ screenshotFiles' = <<>>
    /\ totalPages' = 0
    /\ slideIndex' = 0
    /\ Goto("slideLoop")
    /\ UNCHANGED <<inputVars, subIndex, navVars, delay, screenshot, pdfDoc,
                   diskVars, browser, page, histVars, failed, probeVars, exitCode>>

\* Mutant of SlideLoopCond: the loop also visits every key of the sub-slide mapping.
SlideLoopCondKeys(k, c) ==
    \/ k < c.totalSlides
    \/ \E j \in DOMAIN c.slidesWithSubSlides : j >= k /\ c.slidesWithSubSlides[j] # NoSlideConfig

\* Mutant of SlideLoopCond: the loop stops one slide early.
SlideLoopCondShort(k, c) == k < c.totalSlides - 1

\* The condition of the slide loop: slideIndex < config.totalSlides
SlideLoopCond(k, c) == k < c.totalSlides

\* Mutant of SlideLoop: each slide is reached by loading its URL.
SlideLoopReload ==
    /\ pc = "slideLoop"
    /\ slideIndex < config.totalSlides
    /\ browser' = [browser EXCEPT !.gotos = @ + 1]
    /\ page' = [page EXCEPT !.slide = slideIndex]
    /\ Goto("lookup")
    /\ UNCHANGED <<inputVars, loopVars, navVars, delay, screenshot, docVars,
                   diskVars, histVars, failed, probeVars, exitCode>>

\* for (slideIndex < config.totalSlides): await navigateToSlide(page, slideIndex, config)
SlideLoop ==
    /\ pc = "slideLoop"
    /\ SlideLoopCond(slideIndex, config)
    /\ Call("navigateToSlide", "lookup")
    /\ UNCHANGED <<inputVars, loopVars, navVars, delay, screenshot, docVars,
                   diskVars, browser, page, histVars, failed, probeVars, exitCode>>

\* The slide loop is exhausted.
SlideLoopDone ==
    /\ pc = "slideLoop"
    /\ ~SlideLoopCond(slideIndex, config)
    /\ Goto("save")
    /\ UNCHANGED <<inputVars, loopVars, navVars, delay, screenshot, docVars,
                   diskVars, browser, page, histVars, failed, probeVars, exitCode>>

\* Mutant of StartIndex: every variant starts at 0.
StartIndexZero(sc) == 0

\* const startIndex = type === 'subSlide' ? 0 : 1
StartIndex(sc) == IF sc.type = "subSlide" THEN 0 ELSE 1

\* Mutant of EndIndex: the last sub-state is left out.
EndIndexExclusive(sc) == sc.max - 1

\* const endIndex = type === 'subSlide' ? max : max
EndIndex(sc) == sc.max

\* const subSlideConfig = config.slidesWithSubSlides[slideIndex.toString()];
\* if (subSlideConfig) ... else ...
Lookup ==
    /\ pc = "lookup"
    /\ "slidesWithSubSlides" \in config.fields
    /\ LET sc == SubSlideConfigOf(config, slideIndex) IN
        IF sc # NoSlideConfig
        THEN subIndex' = StartIndex(sc) /\ Goto("subLoop")
        ELSE subIndex' = 0 /\ Goto("hideUIElements")
    /\ UNCHANGED <<inputVars, slideIndex, navVars, delay, screenshot, docVars,
                   diskVars, browser, page, histVars, failed, probeVars, exitCode>>

\* Sub-slide loop, first sub-state: no key event.
SubFirst ==
    /\ pc = "subLoop"
    /\ LET sc == SubSlideConfigOf(config, slideIndex) IN
        /\ subIndex <= EndIndex(sc)
        /\ ~(subIndex > StartIndex(sc))
    /\ Goto("hideUIElements")
    /\ UNCHANGED <<inputVars, loopVars, navVars, delay, screenshot, docVars,
                   diskVars, browser, page, histVars, failed, probeVars, exitCode>>

\* Sub-slide loop, later sub-states: navigateSubSlide(page, 'down', config).
SubDown ==
    /\ pc = "subLoop"
    /\ LET sc == SubSlideConfigOf(config, slideIndex) IN
        /\ subIndex <= EndIndex(sc)
        /\ subIndex > StartIndex(sc)
    /\ Press("ArrowDown")
    /\ CallWaitForAnimation(config.subSlideTransitionWaitTime, "hideUIElements")
    /\ UNCHANGED <<inputVars, loopVars, navVars, screenshot, docVars, diskVars,
                   browser, shots, failed, probeVars, exitCode>>

\* The sub-slide loop is exhausted.
SubLoopDone ==
    /\ pc = "subLoop"
    /\ subIndex > EndIndex(SubSlideConfigOf(config, slideIndex))
    /\ i' = 0
    /\ Goto("reset")
    /\ UNCHANGED <<inputVars, loopVars, steps, navStart, currentSlide, navPageSlide, delay, screenshot,
                   docVars, diskVars, browser, page, histVars, failed, probeVars, exitCode>>

\* The elements hideUIElements sets display:none on.
HiddenElements == {"header", "navigation", "progressBar", "indicator"}

\* hideUIElements(page, config), called before every screenshot, and its
\* settle wait of 300 ms.
HideUIElements ==
    /\ pc = "hideUIElements"
    /\ "selectors" \in config.fields
    /\ page' = [page EXCEPT !.displayNone = @ \cup HiddenElements]
    /\ CallWaitForAnimation(HideSettleDelay, "takeScreenshot")
    /\ UNCHANGED <<inputVars, loopVars, navVars, screenshot, docVars, diskVars,
                   browser, histVars, failed, probeVars, exitCode>>

\* takeScreenshot up to the capture: page.setViewport from the configuration,
\* then waitForSlideContent: the visibility wait (timeout swallowed), for a
\* slide listed in specialSlides the typing-effect poll (timeout swallowed)
\* and the sleep after it, and the settle wait of 1500 ms.
TakeScreenshot ==
    /\ pc = "takeScreenshot"
    /\ "viewport" \in config.fields
    /\ \E visible \in PollOutcomes(readiness), typed \in PollOutcomes(readiness) :
        trace' = IF slideIndex \in config.specialSlides
                 THEN trace \o <<PollEvent, SleepEvent(DefaultTypewriterWaitTime)>>
                 ELSE trace
    /\ CallWaitForAnimation(ContentSettleDelay, "screenshot")
    /\ UNCHANGED <<inputVars, loopVars, navVars, screenshot, docVars, diskVars,
                   browser, page, shots, failed, probeVars, exitCode>>

\* const screenshot = await page.screenshot({fullPage: true, ...})
Screenshot ==
    /\ pc = "screenshot"
    /\ screenshot' =
        [n |-> Len(shots) + 1, slideIndex |-> slideIndex, subIndex |-> subIndex,
         type |-> SubSlideConfigOf(config, slideIndex).type,
         pageSlide |-> page.slide, pageSub |-> page.sub[page.slide]]
    /\ shots' = Append(shots, screenshot')
    /\ trace' = Append(trace, ShotEvent)
    /\ Goto("writeScreenshot")
    /\ UNCHANGED <<inputVars, loopVars, navVars, delay, docVars, diskVars,
                   browser, page, failed, probeVars, exitCode>>

\* Mutant of Filename: the raw sub-index for both variants.
FilenameRaw(s, type, sub) ==
    IF type = "none"
    THEN [slide |-> s + 1, tag |-> "none", num |-> 0]
    ELSE [slide |-> s + 1, tag |-> type, num |-> sub]

\* `slide-${slideIndex + 1}-${type}-${subIndex + (type === 'step' ? 0 : 1)}.png`,
\* resp. `slide-${slideIndex + 1}.png`
Filename(s, type, sub) ==
    IF type = "none"
    THEN [slide |-> s + 1, tag |-> "none", num |-> 0]
    ELSE [slide |-> s + 1, tag |-> type, num |-> sub + (IF type = "step" THEN 0 ELSE 1)]

\* Mutant of DisplayIndex: the raw sub-index for both variants.
DisplayIndexRaw(type, sub) == sub

\* const displayIndex = type === 'step' ? subIndex : subIndex + 1
DisplayIndex(type, sub) == IF type = "step" THEN sub ELSE sub + 1

\* fs.writeFileSync(filepath, screenshot); screenshotFiles.push(filepath)
WriteScreenshot ==
    /\ pc = "writeScreenshot"
    /\ LET f == Filename(slideIndex, SubSlideConfigOf(config, slideIndex).type, subIndex) IN
        /\ screenshotsDir' = Append(screenshotsDir, [file |-> f, content |-> screenshot])
        /\ screenshotFiles' = Append(screenshotFiles, f)
    /\ Goto("convertImageToPDF")
    /\ UNCHANGED <<inputVars, loopVars, navVars, delay, screenshot, pdfDoc,
                   mergedPdf, totalPages, outputFile, browser, page, histVars, failed,
                   probeVars, exitCode>>

\* Mutant of convertImageToPDF: the image is embedded on two pages.
convertImageToPDFTwice(imageBuffer) == <<imageBuffer, imageBuffer>>

\* convertImageToPDF: one new document holding one page made of the image.
convertImageToPDF(imageBuffer) == <<imageBuffer>>

ConvertImageToPDF ==
    /\ pc = "convertImageToPDF"
    /\ pdfDoc' = convertImageToPDF(screenshot)
    /\ Goto("addPage")
    /\ UNCHANGED <<inputVars, loopVars, navVars, delay, screenshot, mergedPdf,
                   screenshotFiles, totalPages, diskVars, browser, page, histVars, failed,
                   probeVars, exitCode>>

\* Mutant of AddPages: the new pages are inserted at the front.
AddPagesFront(doc, pages) == pages \o doc

\* pages.forEach((page) => mergedPdf.addPage(page))
AddPages(doc, pages) == doc \o pages

\* Mutant of AddPage: totalPages is not incremented.
AddPageNoCount ==
    /\ pc = "addPage"
    /\ mergedPdf' = AddPages(mergedPdf, pdfDoc)
    /\ LET type == SubSlideConfigOf(config, slideIndex).type IN
        IF type # "none"
        THEN /\ trace' = Append(trace, ExportedEvent(type, DisplayIndex(type, subIndex)))
             /\ subIndex' = subIndex + 1 /\ Goto("subLoop") /\ UNCHANGED slideIndex
        ELSE /\ UNCHANGED trace
             /\ slideIndex' = slideIndex + 1 /\ Goto("slideLoop") /\ UNCHANGED subIndex
    /\ UNCHANGED <<inputVars, navVars, delay, screenshot, pdfDoc, screenshotFiles, totalPages,
                   diskVars, browser, page, shots, failed, probeVars, exitCode>>

\* copyPages + addPage + totalPages++, then the loop increment: subIndex++ in
\* the sub-slide loop, slideIndex++ for a plain slide.
AddPage ==
    /\ pc = "addPage"
    /\ mergedPdf' = AddPages(mergedPdf, pdfDoc)
    /\ totalPages' = totalPages + 1
    /\ LET type == SubSlideConfigOf(config, slideIndex).type IN
        IF type # "none"
        THEN /\ trace' = Append(trace, ExportedEvent(type, DisplayIndex(type, subIndex)))
             /\ subIndex' = subIndex + 1 /\ Goto("subLoop") /\ UNCHANGED slideIndex
        ELSE /\ UNCHANGED trace
             /\ slideIndex' = slideIndex + 1 /\ Goto("slideLoop") /\ UNCHANGED subIndex
    /\ UNCHANGED <<inputVars, navVars, delay, screenshot, pdfDoc, screenshotFiles,
                   diskVars, browser, page, shots, failed, probeVars, exitCode>>

\* Mutant of ResetBound: i <= endIndex, one ArrowUp too many.
ResetBoundInclusive(sc) == sc.max + 1

\* The bound of the reset loop of a 'subSlide' slide: for (let i = 0; i < endIndex; i++)
ResetBound(sc) == EndIndex(sc)

\* Reset of a 'subSlide' slide: for (i < endIndex) navigateSubSlide(page, 'up', config)
ResetUp ==
    /\ pc = "reset"
    /\ LET sc == SubSlideConfigOf(config, slideIndex) IN
        /\ sc.type = "subSlide"
        /\ i < ResetBound(sc)
    /\ Press("ArrowUp")
    /\ i' = i + 1
    /\ CallWaitForAnimation(config.subSlideTransitionWaitTime, "reset")
    /\ UNCHANGED <<inputVars, loopVars, steps, navStart, currentSlide, navPageSlide, screenshot,
                   docVars, diskVars, browser, shots, failed, probeVars, exitCode>>

\* Reset of a 'step' slide: one navigateSubSlide(page, 'down', config).
ResetStep ==
    /\ pc = "reset"
    /\ SubSlideConfigOf(config, slideIndex).type # "subSlide"
    /\ Press("ArrowDown")
    /\ CallWaitForAnimation(config.subSlideTransitionWaitTime, "nextSlide")
    /\ UNCHANGED <<inputVars, loopVars, navVars, screenshot, docVars, diskVars,
                   browser, shots, failed, probeVars, exitCode>>

\* The reset is over: slideIndex++.
NextSlide ==
    /\ \/ pc = "nextSlide"
       \/ /\ pc = "reset"
          /\ SubSlideConfigOf(config, slideIndex).type = "subSlide"
          /\ i >= ResetBound(SubSlideConfigOf(config, slideIndex))
    /\ slideIndex' = slideIndex + 1
    /\ Goto("slideLoop")
    /\ UNCHANGED <<inputVars, subIndex, navVars, delay, screenshot, docVars,
                   diskVars, browser, page, histVars, failed, probeVars, exitCode>>

\* const pdfBytes = await mergedPdf.save()
Save ==
    /\ pc = "save"
    /\ Goto("writeOutput")
    /\ UNCHANGED <<inputVars, loopVars, navVars, delay, screenshot, docVars,
                   diskVars, browser, page, histVars, failed, probeVars, exitCode>>

\* fs.writeFileSync(OUTPUT_FILE, pdfBytes)
WriteOutput ==
    /\ pc = "writeOutput"
    /\ outputFile' = Append(outputFile, mergedPdf)
    /\ Goto("finally")
    /\ UNCHANGED <<inputVars, loopVars, navVars, delay, screenshot, docVars,
                   screenshotsDir, browser, page, histVars, failed, probeVars, exitCode>>

\* finally { await browser.close(); }
Finally ==
    /\ pc = "finally"
    /\ browser' = [browser EXCEPT !.closes = @ + 1]
    /\ Goto(IF failed THEN "rejected" ELSE "resolved")
    /\ UNCHANGED <<inputVars, loopVars, navVars, delay, screenshot, docVars,
                   diskVars, page, histVars, failed, probeVars, exitCode>>

\* .then(() => process.exit(0))
Resolved ==
    /\ pc = "resolved"
    /\ Exit(0)
    /\ UNCHANGED <<inputVars, loopVars, navVars, delay, screenshot, docVars,
                   diskVars, browser, page, histVars, failed, probeVars>>

\* Mutant of Rejected: the failure handler exits 0.
RejectedExitZero ==
    /\ pc = "rejected"
    /\ Exit(0)
    /\ UNCHANGED <<inputVars, loopVars, navVars, delay, screenshot, docVars,
                   diskVars, browser, page, histVars, failed, probeVars>>

\* .catch((error) => process.exit(1))
Rejected ==
    /\ pc = "rejected"
    /\ Exit(1)
    /\ UNCHANGED <<inputVars, loopVars, navVars, delay, screenshot, docVars,
                   diskVars, browser, page, histVars, failed, probeVars>>

\* ----------------------------------------------------------- specification

Next ==
    \/ LoadConfig
    \/ CheckDevServer
    \/ Launch
    \/ NewPage
    \/ SetViewport
    \/ RaiseBeforeTry
    \/ PageGoto
    \/ WaitProgressBar
    \/ WaitForAnimation
    \/ CreatePdf
    \/ SlideLoop
    \/ SlideLoopDone
    \/ NavRead
    \/ NavNext
    \/ NavPrevious
    \/ NavSame
    \/ NavReturn
    \/ Lookup
    \/ SubFirst
    \/ SubDown
    \/ SubLoopDone
    \/ HideUIElements
    \/ TakeScreenshot
    \/ Screenshot
    \/ WriteScreenshot
    \/ ConvertImageToPDF
    \/ AddPage
    \/ ResetUp
    \/ ResetStep
    \/ NextSlide
    \/ Save
    \/ WriteOutput
    \/ RaiseInTry
    \/ Finally
    \/ Resolved
    \/ Rejected

Spec == Init /\ [][Next]_vars

\* ------------------------------------------- navigateToSlide on its own

\* A complete configuration of a presentation of NavMax + 1 plain slides.
NavConfig ==
    [fields |-> AllFields,
     totalSlides |-> NavMax + 1,
     slidesWithSubSlides |-> [k \in 0..(MaxSlides - 1) |-> NoSlideConfig],
     hideUIElements |-> TRUE,
     animationWaitTime |-> DefaultAnimationWaitTime,
     slideTransitionWaitTime |-> DefaultSlideTransitionWaitTime,
     subSlideTransitionWaitTime |-> DefaultSubSlideTransitionWaitTime,
     specialSlides |-> {}]

\* One call navigateToSlide(page, B, config) on a page showing slide A, with
\* or without a progress indicator.
InitNav ==
    /\ configFile = "present"
    /\ config = NavConfig
    /\ pc = "navigateToSlide"
    /\ stack = <<"halt">>
    /\ slideIndex \in 0..NavMax
    /\ \E s \in 0..NavMax, bar \in BOOLEAN : page = Presentation(NavConfig, s, bar)
    /\ browser = [launches |-> 1, newPages |-> 1, gotos |-> 1, closes |-> 0]
    /\ probes = 1
    /\ probeOutcome = "200"
    /\ FreshLocals
    /\ ToolsIdle
    /\ readiness = "either"

NextNav ==
    \/ NavRead
    \/ NavNext
    \/ NavPrevious
    \/ NavSame
    \/ NavReturn
    \/ WaitForAnimation

SpecNav == InitNav /\ [][NextNav]_vars

\* ------------------------------------------------ configured wait times

\* The durations a configuration file may give for a transition wait.
WaitTimes == {0, DefaultSlideTransitionWaitTime, DefaultSubSlideTransitionWaitTime}

\* Complete configurations of MaxSlides slides, the first with sub-slides, the
\* second with steps, whose transition waits range over WaitTimes.
WaitConfigs ==
    [fields : {AllFields},
     totalSlides : {MaxSlides},
     slidesWithSubSlides :
         {[k \in 0..(MaxSlides - 1) |->
              IF k = 0 THEN [type |-> "subSlide", max |-> 1]
              ELSE IF k = 1 THEN [type |-> "step", max |-> 1]
              ELSE NoSlideConfig]},
     hideUIElements : BOOLEAN,
     animationWaitTime : {DefaultAnimationWaitTime},
     slideTransitionWaitTime : WaitTimes,
     subSlideTransitionWaitTime : WaitTimes,
     specialSlides : {{}}]

InitWait ==
    /\ configFile = "present"
    /\ config \in WaitConfigs
    /\ pc = "loadConfig"
    /\ Fresh
    /\ ToolsIdle
    /\ readiness = "either"

SpecWait == InitWait /\ [][Next]_vars

\* ------------------------------------------------------- readiness polls

\* Complete configurations of MaxSlides slides, the first with sub-slides, the
\* second with steps, either of which may have a typing effect.
PollConfigs ==
    [fields : {AllFields},
     totalSlides : {MaxSlides},
     slidesWithSubSlides :
         {[k \in 0..(MaxSlides - 1) |->
              IF k = 0 THEN [type |-> "subSlide", max |-> 1]
              ELSE IF k = 1 THEN [type |-> "step", max |-> 1]
              ELSE NoSlideConfig]},
     hideUIElements : BOOLEAN,
     animationWaitTime : {DefaultAnimationWaitTime},
     slideTransitionWaitTime : {DefaultSlideTransitionWaitTime},
     subSlideTransitionWaitTime : {DefaultSubSlideTransitionWaitTime},
     specialSlides : {{}, {0}, {1}}]

\* Runs in which every readiness poll succeeds, and runs in which every one
\* times out.
InitPolls ==
    /\ configFile = "present"
    /\ config \in PollConfigs
    /\ pc = "loadConfig"
    /\ Fresh
    /\ ToolsIdle
    /\ readiness \in {"ready", "timeout"}

\* Every awaited operation returns or raises: the run is not suspended forever.
SpecPolls == InitPolls /\ [][Next]_vars /\ WF_vars(Next)

\* ---------------------------------------------------- findChromeExecutable

\* The values of process.platform.
Platforms == {"aix", "android", "darwin", "freebsd", "linux", "openbsd", "sunos", "win32"}

\* const chromePaths on darwin and on win32, in probe order.
DarwinChromePaths ==
    << "/Applications/Google Chrome.app/Contents/MacOS/Google Chrome",
       "/Applications/Chromium.app/Contents/MacOS/Chromium" >>

Win32ChromePaths ==
    << "C:\\Program Files\\Google\\Chrome\\Application\\chrome.exe",
       "C:\\Program Files (x86)\\Google\\Chrome\\Application\\chrome.exe" >>

ChromePaths ==
    {DarwinChromePaths[k] : k \in 1..Len(DarwinChromePaths)}
        \cup {Win32ChromePaths[k] : k \in 1..Len(Win32ChromePaths)}

RECURSIVE ProbeInOrder(_, _, _)
\* for (const chromePath of chromePaths) if (fs.existsSync(chromePath)) return chromePath;
\* the paths probed so far are carried along.
ProbeInOrder(chromePaths, exists, probed) ==
    IF chromePaths = <<>>
    THEN [executablePath |-> "undefined", probed |-> probed]
    ELSE IF Head(chromePaths) \in exists
    THEN [executablePath |-> Head(chromePaths), probed |-> Append(probed, Head(chromePaths))]
    ELSE ProbeInOrder(Tail(chromePaths), exists, Append(probed, Head(chromePaths)))

\* Mutant of findChromeExecutable: the second path is probed first.
findChromeExecutableReversed(platform, exists) ==
    IF platform = "darwin"
    THEN ProbeInOrder(<<DarwinChromePaths[2], DarwinChromePaths[1]>>, exists, <<>>)
    ELSE IF platform = "win32"
    THEN ProbeInOrder(<<Win32ChromePaths[2], Win32ChromePaths[1]>>, exists, <<>>)
    ELSE [executablePath |-> "undefined", probed |-> <<>>]

\* findChromeExecutable: the path returned ("undefined" for undefined) and the
\* paths passed to fs.existsSync, in order.
findChromeExecutable(platform, exists) ==
    IF platform = "darwin"
    THEN ProbeInOrder(DarwinChromePaths, exists, <<>>)
    ELSE IF platform = "win32"
    THEN ProbeInOrder(Win32ChromePaths, exists, <<>>)
    ELSE [executablePath |-> "undefined", probed |-> <<>>]

\* A machine of some platform on which some of the four paths exist.
InitChrome ==
    /\ ExportIdle
    /\ files = NoFiles
    /\ fixer = NoFixer
    /\ project = NoProject
    /\ installer = NoInstaller
    /\ \E platform \in Platforms, exists \in SUBSET ChromePaths :
          chrome = [pc |-> "call", platform |-> platform, exists |-> exists,
                    executablePath |-> "undefined", probed |-> <<>>]

\* const chromePath = findChromeExecutable()
FindChromeExecutable ==
    /\ chrome.pc = "call"
    /\ LET found == findChromeExecutable(chrome.platform, chrome.exists) IN
          chrome' = [chrome EXCEPT !.pc = "returned",
                                   !.executablePath = found.executablePath,
                                   !.probed = found.probed]
    /\ UNCHANGED <<exportVars, files, fixer, project, installer>>

NextChrome == FindChromeExecutable

SpecChrome == InitChrome /\ [][NextChrome]_vars

\* --------------------------------------------- decode-base64-images.js

\* Longest file content considered, in pieces.
MaxContentLen == 2

\* Number of times the script is run on the same project.
MaxRuns == 2

ASSET_DIRS == <<"public/assets", "src/assets", "build/assets">>

\* File content is a sequence of pieces: the text 'iVBORw0KGgo', other base64
\* characters, whitespace, the 8 bytes 89 50 4E 47 0D 0A 1A 0A, and other
\* bytes (which read as text are neither whitespace nor base64 characters).
Pieces == {"header", "base64", "space", "signature", "bytes"}

Contents == UNION {[1..n -> Pieces] : n \in 0..MaxContentLen}

\* The entries of the project the runs are observed on: a .png directly in an
\* asset directory, a second one, a file of another type, a .png one level
\* further down, and a directory whose name ends in .png.
Entries ==
    << [dir |-> "public/assets", sub |-> "", base |-> "a", ext |-> ".png"],
       [dir |-> "src/assets", sub |-> "", base |-> "b", ext |-> ".png"],
       [dir |-> "build/assets", sub |-> "", base |-> "c", ext |-> ".txt"],
       [dir |-> "public/assets", sub |-> "icons", base |-> "d", ext |-> ".png"],
       [dir |-> "build/assets", sub |-> "", base |-> "e", ext |-> ".png"] >>

Paths == {Entries[k] : k \in 1..Len(Entries)}

Missing == [kind |-> "missing", content |-> <<>>, mode |-> "rw"]
Directory == [kind |-> "dir", content |-> <<>>, mode |-> "rw"]

\* A regular file: its content and whether the user may read and write it.
RegularFiles(contents) == [kind : {"file"}, content : contents, mode : {"rw", "ro", "none"}]

RECURSIVE TrimStart(_)
TrimStart(text) ==
    IF text # <<>> /\ Head(text) = "space" THEN TrimStart(Tail(text)) ELSE text

RECURSIVE TrimEnd(_)
TrimEnd(text) ==
    IF text # <<>> /\ text[Len(text)] = "space"
    THEN TrimEnd(SubSeq(text, 1, Len(text) - 1))
    ELSE text

\* content.trim()
Trim(text) == TrimEnd(TrimStart(text))

\* Mutant of isBase64Encoded: the content is not trimmed before the test.
isBase64EncodedNoTrim(file) ==
    /\ file.mode # "none"
    /\ file.content # <<>>
    /\ Head(file.content) = "header"

\* Mutant of isBase64Encoded: every file is taken for base64 text.
isBase64EncodedAlways(file) == TRUE

\* isBase64Encoded: content.trim().startsWith('iVBORw0KGgo'); false when the
\* file cannot be read.
isBase64Encoded(file) ==
    /\ file.mode # "none"
    /\ Trim(file.content) # <<>>
    /\ Head(Trim(file.content)) = "header"

\* decodeBase64ToBuffer: whitespace is removed; Buffer.from(clean, 'base64')
\* passes over characters outside the base64 alphabet and turns the others
\* into bytes, the 11 characters of the header at the start of the stream
\* into the 8 signature bytes. (The letters of the signature read as text are
\* base64 characters.)
decodeBase64ToBuffer(base64String) ==
    LET cleanBase64 == SelectSeq(Trim(base64String), LAMBDA x : x # "space")
        stream == SelectSeq(cleanBase64, LAMBDA x : x # "bytes")
    IN  [k \in 1..Len(stream) |->
            IF k = 1 /\ stream[1] = "header" THEN "signature" ELSE "bytes"]

\* binaryBuffer.slice(0, 8).equals(pngMagicBytes)
HasPngMagic(buffer) == buffer # <<>> /\ buffer[1] = "signature"

\* Mutant of processFile: the decoded bytes are written without either test.
processFileUnchecked(file) ==
    IF file.mode # "rw"
    THEN [content |-> file.content, processed |-> FALSE, reason |-> "EACCES"]
    ELSE [content |-> decodeBase64ToBuffer(file.content), processed |-> TRUE, reason |-> ""]

\* processFile: the content the file holds afterwards and the result returned.
processFile(file) ==
    IF ~isBase64Encoded(file)
    THEN [content |-> file.content, processed |-> FALSE, reason |-> "Not base64-encoded"]
    ELSE LET binaryBuffer == decodeBase64ToBuffer(file.content) IN
         IF ~HasPngMagic(binaryBuffer)
         THEN [content |-> file.content, processed |-> FALSE,
               reason |-> "Decoded content is not a valid PNG"]
         ELSE IF file.mode # "rw"
         THEN [content |-> file.content, processed |-> FALSE, reason |-> "EACCES"]
         ELSE [content |-> binaryBuffer, processed |-> TRUE, reason |-> ""]

\* fs.existsSync(fullDirPath)
DirExists(fs, dir) == \E p \in Paths : p.dir = dir /\ fs[p].kind # "missing"

\* findPngFiles: the regular files directly in dir whose name ends in '.png'.
findPngFiles(fs, dir) ==
    SelectSeq(Entries, LAMBDA p : /\ p.dir = dir
                                  /\ p.sub = ""
                                  /\ fs[p].kind = "file"
                                  /\ p.ext = ".png")

\* The counter main() increments for a result.
CountedAs(result) ==
    IF result.processed THEN "processed"
    ELSE IF result.reason = "Not base64-encoded" THEN "skipped"
    ELSE "error"

\* main() before its first statement, in run number run.
FixerStart(fs, run, afterFirst) ==
    [pc |-> "dirs", run |-> run, dir |-> 1, pending |-> <<>>,
     totalProcessed |-> 0, totalSkipped |-> 0, totalErrors |-> 0,
     results |-> <<>>, exitCode |-> -1, before |-> fs, afterFirst |-> afterFirst]

InitFix ==
    /\ ExportIdle
    /\ project = NoProject
    /\ installer = NoInstaller
    /\ chrome = NoChrome
    /\ \E f1 \in RegularFiles(Contents) \cup {Missing},
          f2 \in RegularFiles({<<"header", "base64">>, <<"signature", "bytes">>}) \cup {Missing},
          f3 \in {Missing, [kind |-> "file", content |-> <<"header">>, mode |-> "rw"]},
          f4 \in {Missing, [kind |-> "file", content |-> <<"header">>, mode |-> "rw"]},
          f5 \in {Missing, Directory} :
          files = [p \in Paths |-> IF p = Entries[1] THEN f1
                                   ELSE IF p = Entries[2] THEN f2
                                   ELSE IF p = Entries[3] THEN f3
                                   ELSE IF p = Entries[4] THEN f4
                                   ELSE f5]
    /\ fixer = FixerStart(files, 1, NoFiles)

\* for (const dir of ASSET_DIRS): if (!fs.existsSync(fullDirPath)) continue
FixDirNotFound ==
    /\ fixer.pc = "dirs"
    /\ fixer.dir <= Len(ASSET_DIRS)
    /\ ~DirExists(files, ASSET_DIRS[fixer.dir])
    /\ fixer' = [fixer EXCEPT !.dir = @ + 1]
    /\ UNCHANGED <<exportVars, files, project, installer, chrome>>

\* const files = findPngFiles(fullDirPath)
FixFindPngFiles ==
    /\ fixer.pc = "dirs"
    /\ fixer.dir <= Len(ASSET_DIRS)
    /\ DirExists(files, ASSET_DIRS[fixer.dir])
    /\ fixer' = [fixer EXCEPT !.pending = findPngFiles(files, ASSET_DIRS[fixer.dir]),
                              !.pc = "files"]
    /\ UNCHANGED <<exportVars, files, project, installer, chrome>>

\* for (const file of files): processFile(file) and the counter of its result
FixProcessFile ==
    /\ fixer.pc = "files"
    /\ fixer.pending # <<>>
    /\ LET file == Head(fixer.pending)
           result == processFile(files[file])
           counted == CountedAs(result)
       IN  /\ files' = [files EXCEPT ![file].content = result.content]
           /\ fixer' = [fixer EXCEPT
                 !.pending = Tail(@),
                 !.totalProcessed = IF counted = "processed" THEN @ + 1 ELSE @,
                 !.totalSkipped = IF counted = "skipped" THEN @ + 1 ELSE @,
                 !.totalErrors = IF counted = "error" THEN @ + 1 ELSE @,
                 !.results = Append(@, [file |-> file,
                                        before |-> files[file].content,
                                        after |-> result.content,
                                        processed |-> result.processed,
                                        reason |-> result.reason,
                                        counted |-> counted])]
    /\ UNCHANGED <<exportVars, project, installer, chrome>>

\* the end of the inner loop
FixDirDone ==
    /\ fixer.pc = "files"
    /\ fixer.pending = <<>>
    /\ fixer' = [fixer EXCEPT !.pc = "dirs", !.dir = @ + 1]
    /\ UNCHANGED <<exportVars, files, project, installer, chrome>>

\* Mutant of FixSummary: a run that reported errors exits 1.
FixSummaryFailing ==
    /\ fixer.pc = "dirs"
    /\ fixer.dir > Len(ASSET_DIRS)
    /\ fixer' = [fixer EXCEPT !.pc = "exited",
                              !.exitCode = IF fixer.totalErrors > 0 THEN 1 ELSE 0]
    /\ UNCHANGED <<exportVars, files, project, installer, chrome>>

\* the summary: process.exit(0) on either branch
FixSummary ==
    /\ fixer.pc = "dirs"
    /\ fixer.dir > Len(ASSET_DIRS)
    /\ fixer' = [fixer EXCEPT !.pc = "exited", !.exitCode = 0]
    /\ UNCHANGED <<exportVars, files, project, installer, chrome>>

\* The script is started again on the project as the last run left it.
FixRunAgain ==
    /\ fixer.pc = "exited"
    /\ fixer.run < MaxRuns
    /\ fixer' = FixerStart(files, fixer.run + 1,
                           IF fixer.run = 1 THEN files ELSE fixer.afterFirst)
    /\ UNCHANGED <<exportVars, files, project, installer, chrome>>

NextFix ==
    \/ FixDirNotFound
    \/ FixFindPngFiles
    \/ FixProcessFile
    \/ FixDirDone
    \/ FixSummary
    \/ FixRunAgain

SpecFix == InitFix /\ [][NextFix]_vars

\* ------------------------------------------------------------- install.ts

\* What the user may type at a prompt; "" is an empty line.
Answers == {"", "y", "Y", "n", "N", "yes"}

\* String.prototype.toLowerCase on the answers.
ToLowerCase(str) ==
    CASE str = "Y" -> "y"
      [] str = "N" -> "n"
      [] OTHER -> str

\* Mutant of Overwrite: only an answer of 'n' keeps the existing target.
OverwriteUnlessNo(answer) ==
    LET overwrite == IF answer = "" THEN "y" ELSE answer
    IN  ToLowerCase(overwrite) # "n"

\* const overwrite = await question(...) || 'y'; the else branch of
\* if (overwrite.toLowerCase() !== 'y')
Overwrite(answer) ==
    LET overwrite == IF answer = "" THEN "y" ELSE answer
    IN  ToLowerCase(overwrite) = "y"

\* const requiredDeps
RequiredDeps == {"puppeteer", "pdf-lib", "tsx", "@types/puppeteer"}

\* package.json of the project: absent, not JSON, or an object whose scripts,
\* devDependencies and dependencies may each be missing. The 'export:pdf'
\* entry is "absent", the empty string, some other command, or "tsx", the
\* command the installer sets.
NoPackageJson(state) ==
    [state |-> state, hasScripts |-> FALSE, exportPdf |-> "absent",
     hasDevDependencies |-> FALSE, devDependencies |-> {},
     hasDependencies |-> FALSE, dependencies |-> {}]

PackageJsons ==
    {NoPackageJson("absent"), NoPackageJson("malformed")} \cup
    {j \in [state : {"json"}, hasScripts : BOOLEAN,
            exportPdf : {"absent", "empty", "other", "tsx"},
            hasDevDependencies : BOOLEAN,
            devDependencies : {{}, {"puppeteer"}, RequiredDeps},
            hasDependencies : BOOLEAN,
            dependencies : {{}, {"pdf-lib"}}] :
        /\ (~j.hasScripts) => (j.exportPdf = "absent")
        /\ (~j.hasDevDependencies) => (j.devDependencies = {})
        /\ (~j.hasDependencies) => (j.dependencies = {})}

\* The project before installation: the packaged export-to-pdf.ts, the
\* project's own copy ("absent", "own" for a file of the user's, "packaged"
\* for a copy of the packaged one), pdf-export.config.json and package.json.
Projects ==
    [source : BOOLEAN, exportScript : {"absent", "own"},
     configFile : {"absent", "own"}, packageJson : PackageJsons]

\* install() before its first statement.
InstallerStart(proj) ==
    [pc |-> "configure", packageJson |-> NoPackageJson("absent"), depsToInstall |-> {},
     scriptAnswer |-> "none", entryAnswer |-> "none", npm |-> "none",
     exitCode |-> -1, before |-> proj]

InitInstall ==
    /\ ExportIdle
    /\ files = NoFiles
    /\ fixer = NoFixer
    /\ chrome = NoChrome
    /\ project \in Projects
    /\ installer = InstallerStart(project)

InstExit(code) == installer' = [installer EXCEPT !.pc = "exited", !.exitCode = code]

\* scanRepository(), the configuration questions and
\* fs.writeFileSync(CONFIG_FILE, ...)
InstSaveConfiguration ==
    /\ installer.pc = "configure"
    /\ project' = [project EXCEPT !.configFile = "written"]
    /\ installer' = [installer EXCEPT !.pc = "copy"]
    /\ UNCHANGED <<exportVars, files, fixer, chrome>>

\* if (!fs.existsSync(EXPORT_SCRIPT_SOURCE)) process.exit(1)
InstSourceNotFound ==
    /\ installer.pc = "copy"
    /\ ~project.source
    /\ InstExit(1)
    /\ UNCHANGED <<exportVars, files, fixer, project, chrome>>

\* if (fs.existsSync(EXPORT_SCRIPT_DEST)): the prompt, then skip or copy
InstCopyExisting ==
    /\ installer.pc = "copy"
    /\ project.source
    /\ project.exportScript # "absent"
    /\ \E answer \in Answers :
          /\ project' = IF Overwrite(answer)
                        THEN [project EXCEPT !.exportScript = "packaged"]
                        ELSE project
          /\ installer' = [installer EXCEPT !.pc = "package", !.scriptAnswer = answer]
    /\ UNCHANGED <<exportVars, files, fixer, chrome>>

\* else fs.copyFileSync(EXPORT_SCRIPT_SOURCE, EXPORT_SCRIPT_DEST)
InstCopyNew ==
    /\ installer.pc = "copy"
    /\ project.source
    /\ project.exportScript = "absent"
    /\ project' = [project EXCEPT !.exportScript = "packaged"]
    /\ installer' = [installer EXCEPT !.pc = "package"]
    /\ UNCHANGED <<exportVars, files, fixer, chrome>>

\* package.json not found, or JSON.parse throws: process.exit(1)
InstPackageUnusable ==
    /\ installer.pc = "package"
    /\ project.packageJson.state # "json"
    /\ InstExit(1)
    /\ UNCHANGED <<exportVars, files, fixer, project, chrome>>

\* packageJson = JSON.parse(...); if (!packageJson.scripts) packageJson.scripts = {}
InstReadPackage ==
    /\ installer.pc = "package"
    /\ project.packageJson.state = "json"
    /\ installer' = [installer EXCEPT !.pc = "entry",
                                      !.packageJson = [project.packageJson EXCEPT !.hasScripts = TRUE]]
    /\ UNCHANGED <<exportVars, files, fixer, project, chrome>>

\* if (packageJson.scripts['export:pdf']): the prompt, then keep or set
InstEntryExisting ==
    /\ installer.pc = "entry"
    /\ installer.packageJson.exportPdf \notin {"absent", "empty"}
    /\ \E answer \in Answers :
          installer' = [installer EXCEPT
              !.pc = "deps",
              !.entryAnswer = answer,
              !.packageJson.exportPdf = IF Overwrite(answer) THEN "tsx" ELSE @]
    /\ UNCHANGED <<exportVars, files, fixer, project, chrome>>

\* else packageJson.scripts['export:pdf'] = 'tsx export-to-pdf.ts'
InstEntryNew ==
    /\ installer.pc = "entry"
    /\ installer.packageJson.exportPdf \in {"absent", "empty"}
    /\ installer' = [installer EXCEPT !.pc = "deps", !.packageJson.exportPdf = "tsx"]
    /\ UNCHANGED <<exportVars, files, fixer, project, chrome>>

\* The required packages that devDependencies does not hold.
NotInDevDependencies(j) == RequiredDeps \ j.devDependencies

\* The forEach over requiredDeps reads packageJson.dependencies[dep] for a
\* package missing from devDependencies: a TypeError when package.json has no
\* dependencies; install().catch exits 1 before package.json is written.
InstDependenciesThrow ==
    /\ installer.pc = "deps"
    /\ NotInDevDependencies(installer.packageJson) # {}
    /\ ~installer.packageJson.hasDependencies
    /\ InstExit(1)
    /\ UNCHANGED <<exportVars, files, fixer, project, chrome>>

\* devDependencies gets every required package that neither table holds;
\* fs.writeFileSync(packageJsonPath, JSON.stringify(packageJson, null, 2))
InstWritePackage ==
    /\ installer.pc = "deps"
    /\ \/ NotInDevDependencies(installer.packageJson) = {}
       \/ installer.packageJson.hasDependencies
    /\ LET missing == NotInDevDependencies(installer.packageJson) \ installer.packageJson.dependencies
           packageJson == [installer.packageJson EXCEPT
                              !.hasDevDependencies = TRUE,
                              !.devDependencies = @ \cup missing]
       IN  /\ project' = [project EXCEPT !.packageJson = packageJson]
           /\ installer' = [installer EXCEPT !.pc = "npm",
                                             !.packageJson = packageJson,
                                             !.depsToInstall = missing]
    /\ UNCHANGED <<exportVars, files, fixer, chrome>>

\* npm install --save-dev when depsToInstall is not empty, its failure
\* caught; rl.close() and the end of install()
InstNpmInstall ==
    /\ installer.pc = "npm"
    /\ \E outcome \in IF installer.depsToInstall = {} THEN {"none"} ELSE {"installed", "failed"} :
          installer' = [installer EXCEPT !.pc = "exited", !.npm = outcome, !.exitCode = 0]
    /\ UNCHANGED <<exportVars, files, fixer, project, chrome>>

NextInstall ==
    \/ InstSaveConfiguration
    \/ InstSourceNotFound
    \/ InstCopyExisting
    \/ InstCopyNew
    \/ InstPackageUnusable
    \/ InstReadPackage
    \/ InstEntryExisting
    \/ InstEntryNew
    \/ InstDependenciesThrow
    \/ InstWritePackage
    \/ InstNpmInstall

SpecInstall == InitInstall /\ [][NextInstall]_vars

\* ------------------------------------------------------------- properties

\* The run has ended with process.exit(0).
Succeeded == pc = "exited" /\ exitCode = 0

\* The screenshots taken of slide s, in order.
SlideShots(s) == SelectSeq(shots, LAMBDA x : x.slideIndex = s)

\* The screenshot files written for slide s, in order.
SlideFiles(s) == SelectSeq(screenshotsDir, LAMBDA f : f.file.slide = s + 1)

\* C1: against a presentation whose progress indicator reports its position,
\* every screenshot is taken with the page on the loop's (slideIndex, subIndex),
\* and whenever the loop moves on to the next slide the slide it leaves is
\* shown by the page and is back in its first sub-state.
C1_PageFollowsLoop ==
    page.progressBar =>
        /\ \A k \in 1..Len(shots) :
              /\ shots[k].pageSlide = shots[k].slideIndex
              /\ (shots[k].type # "none") => (shots[k].pageSub = shots[k].subIndex)
        /\ (pc = "slideLoop" /\ slideIndex > 0) =>
              /\ page.slide = slideIndex - 1
              /\ page.sub[slideIndex - 1] = FirstSub(SubSlideConfigOf(config, slideIndex - 1))

\* A finished run over a 'step' slide and a 'subSlide' slide, each captured up
\* to its last sub-state, with a progress indicator.
C1_Witness ==
    /\ Succeeded
    /\ page.progressBar
    /\ \E a, b \in 1..Len(shots) :
          /\ shots[a].type = "step" /\ shots[a].subIndex = MaxSub
          /\ shots[b].type = "subSlide" /\ shots[b].subIndex = MaxSub

RECURSIVE PagesUpTo(_, _)
\* Sum over slide indices 0..n-1 of (max - min + 1) for a slide with a
\* sub-slide spec and 1 for a slide without.
PagesUpTo(c, n) ==
    IF n = 0 THEN 0
    ELSE LET sc == SubSlideConfigOf(c, n - 1) IN
         PagesUpTo(c, n - 1)
           + (CASE sc.type = "subSlide" -> sc.max - 0 + 1
                [] sc.type = "step" -> sc.max - 1 + 1
                [] OTHER -> 1)

\* C2: after a successful run the merged PDF written to disk holds exactly
\* the sum over the slides of (max - min + 1), resp. 1, pages.
C2_PageCount ==
    Succeeded =>
        /\ Len(outputFile) = 1
        /\ Len(outputFile[1]) = PagesUpTo(config, config.totalSlides)

\* A finished run over a plain slide followed by a 'subSlide' slide of max 2:
\* 1 + 3 pages.
C2_Witness ==
    /\ Succeeded
    /\ config.totalSlides = 2
    /\ SubSlideConfigOf(config, 0) = NoSlideConfig
    /\ SubSlideConfigOf(config, 1) = [type |-> "subSlide", max |-> 2]
    /\ Len(outputFile[1]) = 4

\* C3: for every exported slide with a 'step' spec of max m the captured step
\* numbers are 1..m in order and the file names carry the step number; with a
\* 'subSlide' spec of max m the captured sub-indices are 0..m in order and the
\* file names carry sub-index + 1.
C3_Numbering ==
    \A s \in 0..(slideIndex - 1) :
        LET sc == SubSlideConfigOf(config, s)
            sh == SlideShots(s)
            fl == SlideFiles(s)
        IN  /\ (sc.type = "step") =>
                  /\ Len(sh) = sc.max
                  /\ Len(fl) = sc.max
                  /\ \A j \in 1..sc.max :
                        /\ sh[j].subIndex = j
                        /\ fl[j].file.tag = "step"
                        /\ fl[j].file.num = j
            /\ (sc.type = "subSlide") =>
                  /\ Len(sh) = sc.max + 1
                  /\ Len(fl) = sc.max + 1
                  /\ \A j \in 1..(sc.max + 1) :
                        /\ sh[j].subIndex = j - 1
                        /\ fl[j].file.tag = "subSlide"
                        /\ fl[j].file.num = (j - 1) + 1

\* A finished run that exported a 'step' slide of max 2 and a 'subSlide' slide
\* of max 2.
C3_Witness ==
    /\ Succeeded
    /\ slideIndex = 2
    /\ SubSlideConfigOf(config, 0) = [type |-> "step", max |-> 2]
    /\ SubSlideConfigOf(config, 1) = [type |-> "subSlide", max |-> 2]
    /\ Len(screenshotsDir) = 5

\* The events of the current navigateToSlide call.
NavSegment == SubSeq(trace, navStart + 1, Len(trace))

\* C4: a navigateToSlide call that found the indicator reporting slide A and
\* was asked for slide B has emitted exactly |B - A| key events, ArrowRight if
\* B > A and ArrowLeft if B < A, each followed by one settle wait (sleep, then
\* poll) before the next key event.
C4_NavKeys ==
    (pc = "halt" /\ page.progressBar) =>
        LET n == IF slideIndex >= navPageSlide
                 THEN slideIndex - navPageSlide ELSE navPageSlide - slideIndex
            key == IF slideIndex > navPageSlide THEN "ArrowRight" ELSE "ArrowLeft"
            seg == NavSegment
        IN  IF n = 0
            THEN \A k \in 1..Len(seg) : seg[k].ev # "key"
            ELSE /\ Len(seg) = 3 * n
                 /\ \A j \in 0..(n - 1) :
                       /\ seg[3 * j + 1] = KeyEvent(key)
                       /\ seg[3 * j + 2].ev = "sleep"
                       /\ seg[3 * j + 3].ev = "poll"

\* The call from slide 2 to slide 5 has returned after 3 ArrowRight events.
C4_Witness ==
    /\ pc = "halt"
    /\ page.progressBar
    /\ navPageSlide = 2
    /\ slideIndex = 5
    /\ Len(SelectSeq(NavSegment, LAMBDA e : e = KeyEvent("ArrowRight"))) = 3

\* C5: once the browser has been launched, browser.close() has been called
\* exactly once when the process ends, whatever raised in between.
C5_ClosedOnce ==
    (pc = "exited" /\ browser.launches >= 1) => (browser.closes = 1)

\* C6: a probe that timed out, failed or met a status other than 200 ends the
\* process with a non-zero exit code and without any browser launch.
C6_NoLaunchWhenServerDown ==
    (probeOutcome \notin {"none", "200"}) =>
        /\ pc = "exited"
        /\ exitCode \notin {-1, 0}
        /\ browser.launches = 0

\* The probe timed out and the process has exited.
C6_Witness ==
    /\ probeOutcome = "timeout"
    /\ pc = "exited"
    /\ probes = 1

\* The number of pages slide s contributes once fully exported.
PagesOfSlide(c, s) == PagesUpTo(c, s + 1) - PagesUpTo(c, s)

\* C7: the merged PDF file is written at most once, only when the slide loop
\* is over and the last slide's pages are all in the document; once an error
\* has been raised the file is never written.
C7_PdfWrittenOnce ==
    /\ Len(outputFile) <= 1
    /\ (outputFile # <<>>) =>
          /\ slideIndex = config.totalSlides
          /\ Len(SelectSeq(outputFile[1], LAMBDA x : x.slideIndex = config.totalSlides - 1))
                = PagesOfSlide(config, config.totalSlides - 1)
    /\ failed => (outputFile = <<>>)

\* A run that raised after two pages had been added, and exited without a PDF.
C7_Witness ==
    /\ pc = "exited"
    /\ failed
    /\ totalPages >= 2
    /\ outputFile = <<>>

\* Page a comes before page b in (slideIndex, subIndex) order.
PageBefore(a, b) ==
    \/ a.slideIndex < b.slideIndex
    \/ a.slideIndex = b.slideIndex /\ a.subIndex < b.subIndex

IsPrefix(a, b) == Len(a) <= Len(b) /\ SubSeq(b, 1, Len(a)) = a

\* The k-th page is the k-th screenshot taken, in ascending slide and sub-index.
PagesInOrder ==
    /\ Len(mergedPdf) <= Len(shots)
    /\ \A k \in 1..Len(mergedPdf) :
          /\ mergedPdf[k] = shots[k]
          /\ (k > 1) => PageBefore(mergedPdf[k - 1], mergedPdf[k])

\* C8: the merged PDF only grows at its end, and its pages are the
\* screenshots in the order taken: ascending slide index, ascending sub-index.
C8_AppendOnly == [](PagesInOrder) /\ [][IsPrefix(mergedPdf, mergedPdf')]_vars

\* A finished run whose document holds pages of two slides, one with sub-slides.
C8_Witness ==
    /\ Succeeded
    /\ Len(mergedPdf) >= 4
    /\ mergedPdf[1].slideIndex = 0
    /\ mergedPdf[Len(mergedPdf)].slideIndex = 1

\* The position in trace of the last screenshot, 0 if there is none.
LastShotIndex ==
    IF \E k \in 1..Len(trace) : trace[k].ev = "shot"
    THEN CHOOSE k \in 1..Len(trace) :
            /\ trace[k].ev = "shot"
            /\ \A j \in (k + 1)..Len(trace) : trace[j].ev # "shot"
    ELSE 0

\* The number of events `key` in a sequence of events.
KeyCount(seq, key) == Len(SelectSeq(seq, LAMBDA e : e = KeyEvent(key)))

\* C9: when the loop moves on from a slide with a sub-slide spec, the key
\* events since the slide's last screenshot are, for 'subSlide', max ArrowUp
\* (as many as the ArrowDown events of the traversal) and no ArrowDown, and
\* for 'step' one ArrowDown and no ArrowUp.
C9_ResetEvents ==
    (pc = "slideLoop" /\ slideIndex > 0
        /\ SubSlideConfigOf(config, slideIndex - 1) # NoSlideConfig) =>
        LET sc == SubSlideConfigOf(config, slideIndex - 1)
            traversal == SubSeq(trace, navStart + 1, LastShotIndex)
            reset == SubSeq(trace, LastShotIndex + 1, Len(trace))
        IN  IF sc.type = "subSlide"
            THEN /\ KeyCount(reset, "ArrowUp") = sc.max
                 /\ KeyCount(reset, "ArrowUp") = KeyCount(traversal, "ArrowDown")
                 /\ KeyCount(reset, "ArrowDown") = 0
            ELSE /\ KeyCount(reset, "ArrowDown") = 1
                 /\ KeyCount(reset, "ArrowUp") = 0

\* The loop has left a 'subSlide' slide of max 2 after two ArrowUp events.
C9_Witness ==
    /\ pc = "slideLoop"
    /\ slideIndex = 1
    /\ SubSlideConfigOf(config, 0) = [type |-> "subSlide", max |-> 2]
    /\ KeyCount(SubSeq(trace, LastShotIndex + 1, Len(trace)), "ArrowUp") = 2

\* C10: with hideUIElements false in the configuration, the run never sets
\* display:none on an element of the page.
C10_HideOnlyIfConfigured ==
    (~config.hideUIElements) => (page.displayNone = {})

\* The sub-slide mapping holds a spec for an index outside [0, totalSlides).
HasOutOfRangeSpec ==
    \E k \in DOMAIN config.slidesWithSubSlides :
        k >= config.totalSlides /\ config.slidesWithSubSlides[k] # NoSlideConfig

RECURSIVE DownsUpTo(_, _)
\* The ArrowDown events the slides 0..n-1 call for: max per 'subSlide' slide,
\* (max - 1) + 1 per 'step' slide.
DownsUpTo(c, n) ==
    IF n = 0 THEN 0
    ELSE LET sc == SubSlideConfigOf(c, n - 1) IN
         DownsUpTo(c, n - 1) + (IF sc.type = "none" THEN 0 ELSE sc.max)

RECURSIVE UpsUpTo(_, _)
\* The ArrowUp events the slides 0..n-1 call for: max per 'subSlide' slide.
UpsUpTo(c, n) ==
    IF n = 0 THEN 0
    ELSE LET sc == SubSlideConfigOf(c, n - 1) IN
         UpsUpTo(c, n - 1) + (IF sc.type = "subSlide" THEN sc.max ELSE 0)

\* C11: a sub-slide spec for an index >= totalSlides is inert: every target of
\* navigateToSlide, every screenshot and every page is of a slide in
\* [0, totalSlides), and a finished run has emitted the pages and the
\* ArrowDown/ArrowUp events of the slides in range and no others.
C11_OutOfRangeInert ==
    /\ (pc \in {"navigateToSlide", "navLoop", "lookup"}) =>
          (slideIndex >= 0 /\ slideIndex < config.totalSlides)
    /\ \A k \in 1..Len(shots) : shots[k].slideIndex < config.totalSlides
    /\ \A k \in 1..Len(mergedPdf) : mergedPdf[k].slideIndex < config.totalSlides
    /\ Succeeded =>
          /\ Len(mergedPdf) = PagesUpTo(config, config.totalSlides)
          /\ KeyCount(trace, "ArrowDown") = DownsUpTo(config, config.totalSlides)
          /\ KeyCount(trace, "ArrowUp") = UpsUpTo(config, config.totalSlides)

\* A finished run of one plain slide whose mapping holds a spec for index 1.
C11_Witness ==
    /\ Succeeded
    /\ config.totalSlides = 1
    /\ HasOutOfRangeSpec
    /\ SubSlideConfigOf(config, 0) = NoSlideConfig
    /\ Len(mergedPdf) = 1

\* The file is absent, is not JSON, or lacks the URL or the slide count.
ConfigUnusable ==
    \/ configFile \in {"absent", "malformed"}
    \/ "devServerUrl" \notin config.fields
    \/ "totalSlides" \notin config.fields

\* C14: with an absent, malformed or incomplete configuration file the
\* process ends in loadConfig with a non-zero exit code, without a probe, a
\* browser launch or an output file; a file holding the URL and a slide count
\* of at least 1 is accepted whatever its sub-slide mapping holds.
C14_LoadConfigRejects ==
    /\ (ConfigUnusable /\ pc # "loadConfig") =>
          /\ pc = "exited"
          /\ exitCode \notin {-1, 0}
          /\ probes = 0
          /\ browser.launches = 0
          /\ screenshotsDir = <<>>
          /\ outputFile = <<>>
    /\ (~ConfigUnusable /\ config.totalSlides >= 1 /\ pc = "exited") => (probes = 1)

\* The file lacks the slide count and the process has exited.
C14_Witness ==
    /\ configFile = "present"
    /\ "devServerUrl" \in config.fields
    /\ "totalSlides" \notin config.fields
    /\ pc = "exited"

\* C15: the process exits 0 only when the merged PDF was written in this run,
\* and exits non-zero after an unusable configuration, an unavailable server
\* or an error raised during the run.
C15_ExitCodes ==
    (pc = "exited") =>
        /\ exitCode \in {0, 1}
        /\ (exitCode = 0) => (Len(outputFile) = 1)
        /\ (ConfigUnusable \/ probeOutcome \notin {"none", "200"} \/ failed) => (exitCode # 0)

\* A run that raised in the capture loop after a screenshot and exited 1.
C15_Witness ==
    /\ pc = "exited"
    /\ exitCode = 1
    /\ failed
    /\ Len(shots) >= 1
    /\ browser.closes = 1

\* One launch, one page and one load at most, the load before any key event
\* or screenshot.
SingleSession ==
    /\ browser.launches <= 1
    /\ browser.newPages <= 1
    /\ browser.gotos <= 1
    /\ (\E k \in 1..Len(trace) : trace[k].ev \in {"key", "shot"}) => (browser.gotos = 1)

\* A step that moves the page to another slide or sub-state is the load or one key event.
MovesByKeyOnly ==
    (page'.slide # page.slide \/ page'.sub # page.sub) =>
        \/ browser'.gotos = browser.gotos + 1
        \/ /\ Len(trace') = Len(trace) + 1
           /\ trace'[Len(trace')].ev = "key"

\* C16: in every run at most one browser is launched, one page created and
\* one URL loaded; the load precedes every key event and screenshot, and after
\* it the page moves by key events only.
C16_SingleLoad == [](SingleSession) /\ [][MovesByKeyOnly]_vars

\* A finished run that pressed keys and took screenshots after its one load.
C16_Witness ==
    /\ Succeeded
    /\ browser.gotos = 1
    /\ Len(shots) >= 2
    /\ KeyCount(trace, "ArrowRight") >= 1
    /\ KeyCount(trace, "ArrowDown") >= 1

\* C17: every key event that is followed by another event is followed by one
\* settle wait (its sleep, then its poll) before the next key event or
\* screenshot.
C17_NoBatching ==
    \A k \in 1..Len(trace) :
        (trace[k].ev = "key" /\ k < Len(trace)) =>
            /\ trace[k + 1].ev = "sleep"
            /\ k + 2 <= Len(trace)
            /\ trace[k + 2].ev = "poll"

\* A finished run with a navigation key, a sub-slide key and a reset key.
C17_Witness ==
    /\ Succeeded
    /\ KeyCount(trace, "ArrowRight") >= 1
    /\ KeyCount(trace, "ArrowDown") >= 1
    /\ KeyCount(trace, "ArrowUp") >= 1

\* A result whose decoded content lacks the signature left the file as it was
\* and reported it as not processed; a changed file begins with the signature.
ResultsChecked ==
    \A k \in 1..Len(fixer.results) :
        LET r == fixer.results[k] IN
        /\ ~HasPngMagic(decodeBase64ToBuffer(r.before)) => (r.after = r.before /\ ~r.processed)
        /\ (r.after # r.before) => HasPngMagic(r.after)

\* A step that changes an entry leaves a regular file beginning with the signature.
WritesOnlyPng ==
    \A p \in Paths : (files'[p] # files[p]) =>
        /\ files'[p].kind = "file"
        /\ HasPngMagic(files'[p].content)

\* C12: processFile leaves the file unchanged and reports it as not processed
\* whenever the decoded content does not begin with the PNG signature, and a
\* file is only ever overwritten with bytes that begin with the signature.
C12_OnlyPngWritten == [](ResultsChecked) /\ [][WritesOnlyPng]_vars

\* A run that left base64 text without the header untouched and decoded another file.
C12_Witness ==
    /\ fixer.pc = "exited"
    /\ \E k \in 1..Len(fixer.results) :
          /\ fixer.results[k].before # <<>>
          /\ fixer.results[k].before[1] = "base64"
          /\ ~fixer.results[k].processed
    /\ \E k \in 1..Len(fixer.results) :
          /\ fixer.results[k].processed
          /\ fixer.results[k].after # fixer.results[k].before

\* The number of results of this run counted as kind.
Counted(kind) == Cardinality({k \in 1..Len(fixer.results) : fixer.results[k].counted = kind})

\* C13: from the second run on every file holds what the first run left, and
\* in every run a file that already begins with the PNG signature is not
\* written and is counted as skipped.
C13_Idempotent ==
    /\ (fixer.run >= 2) => (files = fixer.afterFirst)
    /\ fixer.totalSkipped = Counted("skipped")
    /\ \A k \in 1..Len(fixer.results) :
          HasPngMagic(fixer.results[k].before) =>
              /\ fixer.results[k].after = fixer.results[k].before
              /\ fixer.results[k].counted = "skipped"

\* The second run has ended and has skipped a file that begins with the signature.
C13_Witness ==
    /\ fixer.pc = "exited"
    /\ fixer.run = 2
    /\ \E k \in 1..Len(fixer.results) :
          /\ HasPngMagic(fixer.results[k].before)
          /\ Len(fixer.results[k].before) = 2
          /\ fixer.results[k].counted = "skipped"
          /\ files[fixer.results[k].file] = fixer.afterFirst[fixer.results[k].file]

\* A .png file directly in an asset directory whose trimmed text starts with the header.
EncodedPng(fs, p) ==
    /\ p.sub = ""
    /\ p.ext = ".png"
    /\ fs[p].kind = "file"
    /\ Trim(fs[p].content) # <<>>
    /\ Head(Trim(fs[p].content)) = "header"

\* No entry was created or deleted, and no entry changed its kind.
SameEntries == \A p \in Paths : files[p].kind = fixer.before[p].kind

Confirming == {"", "y", "Y"}

ConfiguredWait(key) ==
    IF key \in {"ArrowRight", "ArrowLeft"}
    THEN config.slideTransitionWaitTime
    ELSE config.subSlideTransitionWaitTime

\* C20 as stated: the sleep after each next/previous key event lasts the
\* configured slideTransitionWaitTime and after each down/up key event the
\* configured subSlideTransitionWaitTime, for every duration including 0, and
\* the poll follows the sleep.
C20_SleepsAsGiven ==
    \A k \in 1..Len(trace) :
        (trace[k].ev = "key" /\ k + 2 <= Len(trace)) =>
            /\ trace[k + 1].ev = "sleep"
            /\ trace[k + 1].ms = ConfiguredWait(trace[k].key)
            /\ trace[k + 2].ev = "poll"

\* The positions between the capture of a screenshot and the end of its capture step.
MidCapture == {"writeScreenshot", "convertImageToPDF", "addPage"}

\* The number of elements of seq that are of screenshot number n.
TimesIn(seq, n) == Cardinality({k \in 1..Len(seq) : seq[k].n = n})

\* The screenshots written to disk, in write order.
WrittenShots == [k \in 1..Len(screenshotsDir) |-> screenshotsDir[k].content]

\* Every screenshot is written at most once and converted into at most one
\* page, and at the end of its capture step exactly once each.
HandledOnce ==
    /\ Len(pdfDoc) <= 1
    /\ \A k \in 1..Len(shots) :
          /\ TimesIn(WrittenShots, shots[k].n) <= 1
          /\ TimesIn(mergedPdf, shots[k].n) <= 1
          /\ (pc \notin MidCapture /\ ~failed) =>
                /\ TimesIn(WrittenShots, shots[k].n) = 1
                /\ TimesIn(mergedPdf, shots[k].n) = 1

\* C23 as stated: every screenshot is converted into one page exactly once and
\* then written exactly once; no file is written for a screenshot whose
\* conversion has not completed.
C23_ConvertedThenWritten ==
    /\ HandledOnce
    /\ \A k \in 1..Len(WrittenShots) :
          \/ pdfDoc = <<WrittenShots[k]>>
          \/ TimesIn(mergedPdf, WrittenShots[k].n) = 1

\* C23: every screenshot is written to disk exactly once and then converted
\* into one page exactly once; no page is made of a screenshot that has not
\* been written.
C23_WrittenThenConverted ==
    /\ HandledOnce
    /\ \A k \in 1..Len(mergedPdf) : TimesIn(WrittenShots, mergedPdf[k].n) = 1
    /\ \A k \in 1..Len(pdfDoc) : TimesIn(WrittenShots, pdfDoc[k].n) = 1

\* The conversion raised after the second screenshot was written: two files, one page.
C23_Witness ==
    /\ pc = "exited"
    /\ failed
    /\ Len(shots) = 2
    /\ Len(screenshotsDir) = 2
    /\ Len(mergedPdf) = 1

\* A position at which the next statement reads a field the file does not hold.
MissingFieldAt ==
    \/ pc \in {"setViewport", "takeScreenshot"} /\ "viewport" \notin config.fields
    \/ pc \in {"navigateToSlide", "hideUIElements"} /\ "selectors" \notin config.fields
    \/ pc = "lookup" /\ "slidesWithSubSlides" \notin config.fields

\* C27 as stated: a run on a configuration that loadConfig accepted never
\* comes to a statement that raises because a field is absent.
C27_AcceptedConfigSuffices ==
    (configFile = "present" /\ ConfigAccepted(config)) => ~MissingFieldAt

\* The four counts of the capture loop.
CountsAgree ==
    /\ Len(mergedPdf) = totalPages
    /\ Len(screenshotFiles) = totalPages
    /\ Len(screenshotsDir) = totalPages

\* The step that ends a capture step raises each count by one.
CaptureStepAddsOne ==
    (pc = "addPage" /\ pc' \in {"subLoop", "slideLoop"}) =>
        /\ totalPages' = totalPages + 1
        /\ Len(mergedPdf') = Len(mergedPdf) + 1
        /\ Len(screenshotFiles') = totalPages'
        /\ Len(screenshotsDir') = totalPages'

\* C28: outside a capture step in progress, totalPages, the pages of the
\* merged PDF, the recorded file paths and the screenshot files written are
\* equal in number, and each capture step raises all four by one.
C28_CountersAgree ==
    [](((pc \notin MidCapture /\ ~failed) => CountsAgree)) /\ [][CaptureStepAddsOne]_vars

\* A finished run of three capture steps.
C28_Witness ==
    /\ Succeeded
    /\ totalPages = 3
    /\ Len(screenshotsDir) = 3

\* C29: a navigateToSlide call that found no progress indicator took the
\* current slide to be 0: asked for slide k it has emitted k ArrowRight events
\* and no ArrowLeft event, whatever slide the page was on.
C29_NoIndicatorFromZero ==
    (pc = "halt" /\ ~page.progressBar) =>
        /\ currentSlide = 0
        /\ KeyCount(NavSegment, "ArrowRight") = slideIndex
        /\ KeyCount(NavSegment, "ArrowLeft") = 0

\* The call ended on a page that was on slide 3 without an indicator, asked for slide 2.
C29_Witness ==
    /\ pc = "halt"
    /\ ~page.progressBar
    /\ navPageSlide = 3
    /\ slideIndex = 2
    /\ KeyCount(NavSegment, "ArrowRight") = 2

\* package.json holds an 'export:pdf' script and every required package.
PackageComplete(j) ==
    /\ j.exportPdf \notin {"absent", "empty"}
    /\ RequiredDeps \subseteq (j.devDependencies \cup j.dependencies)

\* C26 as stated: with the packaged script present and a package.json that
\* parses, install() ends normally after writing a package.json that holds an
\* 'export:pdf' script and every required package.
C26_NoCrashOnPackageJson ==
    (/\ installer.pc = "exited"
     /\ installer.before.source
     /\ installer.before.packageJson.state = "json") =>
        /\ installer.exitCode = 0
        /\ PackageComplete(project.packageJson)

\* C30: when main() has reached its summary the exit code is 0, whatever the
\* three counters hold.
C30_FixerExitsZero ==
    (fixer.pc = "exited") => (fixer.exitCode = 0)

\* A run that reported an error and decoded nothing.
C30_Witness ==
    /\ fixer.pc = "exited"
    /\ fixer.totalErrors >= 1
    /\ fixer.totalProcessed = 0
    /\ fixer.exitCode = 0

\* The log lines of the exported sub-states, in order.
ExportedLines == SelectSeq(trace, LAMBDA e : e.ev = "exported")

\* The screenshots of sub-states whose capture step has ended, in order.
ExportedSubShots ==
    SubSeq(SelectSeq(shots, LAMBDA x : x.type # "none"), 1, Len(ExportedLines))

\* The screenshot files of sub-states, in write order.
SubStateFiles == SelectSeq(screenshotsDir, LAMBDA f : f.content.type # "none")

\* C24 as stated: a 'subSlide' sub-state is displayed with its zero-based
\* sub-index and a 'step' sub-state with its step number, in the log line and
\* in the file name.
C24_DisplayedAsIndexed ==
    /\ \A j \in 1..Len(ExportedLines) :
          /\ ExportedLines[j].key = ExportedSubShots[j].type
          /\ ExportedLines[j].ms = ExportedSubShots[j].subIndex
    /\ \A j \in 1..Len(SubStateFiles) :
          SubStateFiles[j].file.num = SubStateFiles[j].content.subIndex

\* The number shown for sub-state sub of a slide of variant type.
Displayed(type, sub) == IF type = "subSlide" THEN sub + 1 ELSE sub

\* C24: a 'subSlide' sub-state is displayed with its sub-index plus one and a
\* 'step' sub-state with its step number, in the log line and in the file name.
C24_DisplayedOneBased ==
    /\ \A j \in 1..Len(ExportedLines) :
          /\ ExportedLines[j].key = ExportedSubShots[j].type
          /\ ExportedLines[j].ms =
                Displayed(ExportedSubShots[j].type, ExportedSubShots[j].subIndex)
    /\ \A j \in 1..Len(SubStateFiles) :
          SubStateFiles[j].file.num =
              Displayed(SubStateFiles[j].content.type, SubStateFiles[j].content.subIndex)

\* A finished run that exported sub-slide 1 of a 'subSlide' slide (shown as 2)
\* and step 2 of a 'step' slide (shown as 2).
C24_Witness ==
    /\ Succeeded
    /\ \E j \in 1..Len(ExportedLines) :
          /\ ExportedLines[j] = ExportedEvent("subSlide", 2)
          /\ ExportedSubShots[j].subIndex = 1
    /\ \E j \in 1..Len(ExportedLines) :
          /\ ExportedLines[j] = ExportedEvent("step", 2)
          /\ ExportedSubShots[j].subIndex = 2

\* The platforms on which findChromeExecutable passes a path to fs.existsSync.
ProbingPlatforms ==
    {pl \in Platforms : findChromeExecutable(pl, {}).probed # <<>>}

\* The call returned the first of the two paths that exists, having probed
\* no further, or undefined after probing both.
FirstOfTwo(paths) ==
    IF paths[1] \in chrome.exists
    THEN chrome.executablePath = paths[1] /\ chrome.probed = <<paths[1]>>
    ELSE IF paths[2] \in chrome.exists
    THEN chrome.executablePath = paths[2] /\ chrome.probed = paths
    ELSE chrome.executablePath = "undefined" /\ chrome.probed = paths

\* The call probed nothing and returned undefined.
Delegated == chrome.executablePath = "undefined" /\ chrome.probed = <<>>

\* C25 as stated: exactly one platform probes; there the call returns the
\* first of its two paths that exists, or undefined; on every other platform
\* it probes nothing and returns undefined.
C25_OnePlatformProbes ==
    /\ Cardinality(ProbingPlatforms) = 1
    /\ (chrome.pc = "returned") =>
          IF chrome.platform \in ProbingPlatforms
          THEN FirstOfTwo(IF chrome.platform = "darwin"
                          THEN DarwinChromePaths ELSE Win32ChromePaths)
          ELSE Delegated

\* C25: on darwin and on win32 the call returns the first of the platform's
\* two paths that exists, or undefined if neither exists; on every other
\* platform it probes nothing and returns undefined.
C25_TwoPlatformsProbe ==
    /\ ProbingPlatforms = {"darwin", "win32"}
    /\ (chrome.pc = "returned") =>
          CASE chrome.platform = "darwin" -> FirstOfTwo(DarwinChromePaths)
            [] chrome.platform = "win32" -> FirstOfTwo(Win32ChromePaths)
            [] OTHER -> Delegated

\* The call returned the second win32 path where the first does not exist and
\* both darwin paths do.
C25_Witness ==
    /\ chrome.pc = "returned"
    /\ chrome.platform = "win32"
    /\ chrome.exists = ChromePaths \ {Win32ChromePaths[1]}
    /\ chrome.executablePath = Win32ChromePaths[2]
    /\ chrome.probed = Win32ChromePaths

\* The positions at which the next step is a readiness poll.
PollPositions == {"waitForSelector", "waitForAnimation", "takeScreenshot"}

\* The step a poll that timed out is followed by: the run goes on where it
\* goes on after a poll that succeeded, with no key event, screenshot or page
\* added and no error raised.
Swallowed ==
    /\ failed' = failed
    /\ shots' = shots
    /\ mergedPdf' = mergedPdf
    /\ page' = page
    /\ \A k \in (Len(trace) + 1)..Len(trace') : trace'[k].ev \in {"sleep", "poll"}
    /\ CASE pc = "waitForSelector" ->
              /\ pc' = "waitForAnimation" /\ stack' = <<"createPdf">> \o stack
              /\ trace' = trace
         [] pc = "waitForAnimation" ->
              /\ pc' = Head(stack) /\ stack' = Tail(stack)
              /\ trace' = trace \o <<SleepEvent(WaitTimeOf(delay, config)), PollEvent>>
         [] pc = "takeScreenshot" ->
              /\ pc' = "waitForAnimation" /\ stack' = <<"screenshot">> \o stack
              /\ Len(trace') = Len(trace) + (IF slideIndex \in config.specialSlides THEN 2 ELSE 0)

\* The captures the slides 0..n-1 call for, in order.
RECURSIVE ExpectedCaptures(_, _)
ExpectedCaptures(c, n) ==
    IF n = 0 THEN <<>>
    ELSE LET sc == SubSlideConfigOf(c, n - 1)
             first == IF sc.type = "step" THEN 1 ELSE 0
             count == IF sc.type = "none" THEN 1 ELSE sc.max - first + 1
         IN  ExpectedCaptures(c, n - 1) \o
             [k \in 1..count |-> [slideIndex |-> n - 1, subIndex |-> first + k - 1]]

\* A finished run has taken the captures the configuration calls for, made
\* one page of each, and sent the sub-slide key events the configuration
\* calls for.
SameOutput ==
    Succeeded =>
        /\ [k \in 1..Len(shots) |-> [slideIndex |-> shots[k].slideIndex,
                                     subIndex |-> shots[k].subIndex]]
              = ExpectedCaptures(config, config.totalSlides)
        /\ mergedPdf = shots
        /\ KeyCount(trace, "ArrowDown") = DownsUpTo(config, config.totalSlides)
        /\ KeyCount(trace, "ArrowUp") = UpsUpTo(config, config.totalSlides)

\* C21: in a run whose readiness polls all time out, the step after each poll
\* is the step that follows a successful poll, no error is raised by it, and a
\* finished run has produced the screenshots, pages and sub-slide key events
\* that the configuration alone determines.
C21_TimeoutsSwallowed ==
    /\ []SameOutput
    /\ [][(readiness = "timeout" /\ pc \in PollPositions /\ pc' # "finally") => Swallowed]_vars
    /\ [][(readiness = "timeout" /\ pc \in {"waitForSelector", "waitForAnimation"})
              => (pc' # "finally" /\ ~failed')]_vars

\* A finished run of a slide with a typing effect in which every poll timed out.
C21_Witness ==
    /\ Succeeded
    /\ readiness = "timeout"
    /\ config.specialSlides = {1}
    /\ Len(mergedPdf) = 3
    /\ \E k \in 1..Len(trace) : trace[k] = SleepEvent(DefaultTypewriterWaitTime)

\* C22: every run ends, with the PDF saved or with a failure exit.
C22_Terminates == <>(pc = "exited")

\* A run that ended with the PDF saved although no progress indicator came up
\* and every poll timed out.
C22_Witness ==
    /\ Succeeded
    /\ readiness = "timeout"
    /\ ~page.progressBar
    /\ Len(outputFile) = 1
    /\ Len(mergedPdf) >= 2
====
